---- MODULE Spec2Model ----
(***************************************************************************)
(* Model of the Gutachten submission pipeline of src/server.js (class      *)
(* DSGutachtenServer): the POST /api/submit-gutachten handler, the         *)
(* normaliser and validator, PDF rendering into the temp directory, the    *)
(* Google Drive upload and the Notion record keeping.                      *)
(*                                                                         *)
(* Node runs one handler at a time and switches between requests only at   *)
(* an await, so every action below is the code between two awaits of one   *)
(* request: it resumes after the awaited call has returned or failed and   *)
(* runs up to the next awaited call (which it issues) or to the response.  *)
(*                                                                         *)
(* Strings are sequences of tokens: a key such as auftraggeber.name is     *)
(* <<"auftraggeber", ".", "name">>, a value such as " x" is <<" ", "x">>;   *)
(* the characters . _ / @ and whitespace are always tokens of their own.   *)
(***************************************************************************)
EXTENDS Integers, Sequences, FiniteSets, TLC

\* Number of requests the model follows, and the last clock value (ms).
NumSubs == 2
MaxClock == 1

Subs == 1 .. NumSubs
Clock == 0 .. MaxClock

\* JavaScript undefined / null for the places that hold a string or an id.
Undefined == <<"undefined">>
Null == 0

-----------------------------------------------------------------------------
(* Strings and objects                                                     *)

Dot == "."
Underscore == "_"
Blank == " "

\* key with every token equal to Dot replaced by Underscore: key.replace(/\./g, '_')
ReplaceDots(key) ==
    [i \in 1 .. Len(key) |-> IF key[i] = Dot THEN Underscore ELSE key[i]]

\* key.includes('.')
IncludesDot(key) == \E i \in 1 .. Len(key) : key[i] = Dot

RECURSIVE SplitOn(_, _)
\* str.split(sep): the segments between the separators, in order
SplitOn(str, sep) ==
    IF \A i \in 1 .. Len(str) : str[i] # sep
    THEN <<str>>
    ELSE LET i == CHOOSE j \in 1 .. Len(str) :
                      str[j] = sep /\ \A k \in 1 .. j - 1 : str[k] # sep
         IN  <<SubSeq(str, 1, i - 1)>> \o SplitOn(SubSeq(str, i + 1, Len(str)), sep)

RECURSIVE Trim(_)
\* str.trim()
Trim(str) ==
    IF str = <<>> THEN <<>>
    ELSE IF Head(str) = Blank THEN Trim(Tail(str))
    ELSE IF str[Len(str)] = Blank THEN Trim(SubSeq(str, 1, Len(str) - 1))
    ELSE str

\* obj[key], undefined when the object has no such property
Get(obj, key) == IF key \in DOMAIN obj THEN obj[key] ELSE Undefined

\* obj[key] = value
Put(obj, key, value) ==
    [k \in DOMAIN obj \cup {key} |-> IF k = key THEN value ELSE obj[k]]

\* the object {}
EmptyObject == [k \in {} |-> Undefined]

\* !v for the values a form carries (strings): undefined and '' are falsy
Falsy(v) == v = Undefined \/ v = <<>>

-----------------------------------------------------------------------------
(* normalizeFormData and validateFormData                                  *)

GutachtenNrKey == <<"gutachten", "_", "nr">>
KennzeichenKey == <<"auftraggeber", "_", "kennzeichen">>

\* const fieldMapping = { gutachtenNr: 'gutachten_nr' }
fieldMapping == [k \in {<<"gutachtenNr">>} |-> GutachtenNrKey]

\* Property names every plain object inherits from Object.prototype: for
\* these fieldMapping[key] is a function or object, hence truthy.
InheritedKeys ==
    {<<"constructor">>, <<"toString">>, <<"valueOf">>, <<"hasOwnProperty">>,
     <<"_", "_", "proto", "_", "_">>}

\* fieldMapping[key] || key, as the property name it becomes
MappedKey(key) ==
    IF key \in DOMAIN fieldMapping THEN fieldMapping[key]
    ELSE IF key \in InheritedKeys THEN <<"[native]">> \o key
    ELSE key

\* Variant: key.replace('.', '_'), which replaces the first dot only.
NormalizedKey_FirstDotOnly(key) ==
    IF IncludesDot(key)
    THEN LET i == CHOOSE j \in 1 .. Len(key) :
                      key[j] = Dot /\ \A k \in 1 .. j - 1 : key[k] # Dot
         IN  [key EXCEPT ![i] = Underscore]
    ELSE MappedKey(key)

\* The key one input key is stored under (the body of the forEach).
NormalizedKey(key) ==
    IF IncludesDot(key)
    THEN LET parts == SplitOn(key, Dot)
         IN  IF Len(parts) = 2
             THEN parts[1] \o <<Underscore>> \o parts[2]
             ELSE ReplaceDots(key)
    ELSE MappedKey(key)

\* normalized[key] = value for a string value: the assignment to __proto__
\* calls the inherited setter, which ignores a value that is not an object.
ProtoKey == <<"_", "_", "proto", "_", "_">>
SetProperty(obj, key, value) ==
    IF key = ProtoKey THEN obj ELSE Put(obj, key, value)

RECURSIVE NormalizeKeys(_, _)
\* Object.keys(data).forEach(...): data is the sequence of <<key, value>>
\* entries in key order, normalized the object built so far.
NormalizeKeys(data, normalized) ==
    IF data = <<>> THEN normalized
    ELSE NormalizeKeys(Tail(data),
                       SetProperty(normalized, NormalizedKey(Head(data)[1]),
                                   Head(data)[2]))

\* Date.now() is the clock value t in milliseconds; the calendar year is
\* counted in mean Gregorian years from 1970.
EpochYear == 1970
SecondsPerYear == 31556952
MsPerSecond == 1000
GetFullYear(t) == EpochYear + (t \div MsPerSecond) \div SecondsPerYear

RECURSIVE Digits(_)
\* String(n): the decimal digits of n >= 0, one token each
Digits(n) ==
    IF n < 10 THEN <<ToString(n)>>
    ELSE Append(Digits(n \div 10), ToString(n % 10))

SliceLength == 6

\* Variant: str.slice(0, k), the first k tokens.
SliceLast_FromStart(str, k) ==
    IF Len(str) <= k THEN str ELSE SubSeq(str, 1, k)

\* str.slice(-k): the last k tokens, the whole string when it is shorter
SliceLast(str, k) ==
    IF Len(str) <= k THEN str ELSE SubSeq(str, Len(str) - k + 1, Len(str))

\* `DS-${new Date().getFullYear()}-${String(Date.now()).slice(-6)}`
GeneratedNr(t) ==
    <<"DS-">> \o Digits(GetFullYear(t)) \o <<"-">> \o SliceLast(Digits(t), SliceLength)

\* Variant: the order number is synthesized only when the property is absent.
normalizeFormData_OnlyWhenAbsent(data, t) ==
    LET normalized == NormalizeKeys(data, EmptyObject)
    IN  IF GutachtenNrKey \notin DOMAIN normalized
        THEN Put(normalized, GutachtenNrKey, GeneratedNr(t))
        ELSE normalized

\* normalizeFormData(data) called at clock value t
normalizeFormData(data, t) ==
    LET normalized == NormalizeKeys(data, EmptyObject)
    IN  IF Falsy(Get(normalized, GutachtenNrKey))
        THEN Put(normalized, GutachtenNrKey, GeneratedNr(t))
        ELSE normalized

required ==
    << GutachtenNrKey,
       <<"auftraggeber", "_", "name">>,
       <<"auftraggeber", "_", "adresse">>,
       <<"auftraggeber", "_", "kontakt">>,
       KennzeichenKey,
       <<"unfall", "_", "tag">>,
       <<"unfall", "_", "ort">> >>

\* Variant: the value is not trimmed before the comparison.
FieldMissing_NoTrim(data, field) == Falsy(Get(data, field))

\* !data[field] || data[field].toString().trim() === ''
FieldMissing(data, field) ==
    Falsy(Get(data, field)) \/ Trim(Get(data, field)) = <<>>

At == "@"
Slash == "/"

\* emailRegex.test(str) for /^[^\s@]+@[^\s@]+\.[^\s@]+$/: no whitespace, one
\* '@' after at least one token, and a '.' with a token on either side
\* behind it. The tokens other than Blank, At, Dot and Slash are non-empty
\* runs of other characters.
EmailRegexTest(str) ==
    /\ \A k \in 1 .. Len(str) : str[k] # Blank
    /\ \E i \in 2 .. Len(str) :
           /\ str[i] = At
           /\ \A k \in 1 .. Len(str) : str[k] = At => k = i
           /\ \E j \in i + 2 .. Len(str) - 1 : str[j] = Dot

\* Variant: a contact without an email address is rejected.
SkipEmailValidation_Rejects == <<"email">>

\* The body of the email check: a comment, nothing is thrown.
SkipEmailValidation == <<"ok">>

\* The outcome of validateFormData: "ok" when it returns, otherwise the field
\* named by the Error it throws (the first missing one in list order).
validateFormData(data) ==
    IF \E i \in 1 .. Len(required) : FieldMissing(data, required[i])
    THEN required[CHOOSE i \in 1 .. Len(required) :
                     /\ FieldMissing(data, required[i])
                     /\ \A j \in 1 .. i - 1 : ~FieldMissing(data, required[j])]
    ELSE LET kontakt == Get(data, <<"auftraggeber", "_", "kontakt">>)
         IN  IF ~Falsy(kontakt) /\ ~EmailRegexTest(Trim(SplitOn(kontakt, Slash)[1]))
             THEN SkipEmailValidation
             ELSE <<"ok">>

-----------------------------------------------------------------------------
(* The server: state                                                       *)

VARIABLES
    subs,       \* per request: position in the handler, locals, results, response
    tempDir,    \* files in the temp directory: [path, writer]
    folders,    \* Google Drive folders under the root: [id, name]
    files,      \* Google Drive files: [id, folder, source, public]
    contacts,   \* Notion KONTAKTE pages: [id, kennzeichen]
    orders,     \* Notion Business Resource pages: [id, link, kontakt]
    now,        \* the last value Date.now() returned (ms)
    notion,     \* this.notion is a client (TRUE) or null (FALSE)
    env,        \* this.drive and the process.env settings the pipeline reads
    arrivals,   \* how requests arrive: "concurrent" (any time) or "serial"
    probe,      \* one direct call sequence of the normaliser and the validator
    dsGutachtenForm  \* the form object of one browser page (public/app.js)

vars == <<subs, tempDir, folders, files, contacts, orders, now, notion, env, arrivals, probe, dsGutachtenForm>>

\* The awaited calls of one submission, and the two stage entries.
CallNames ==
    {"render", "upload_stage", "root_get", "folder_lookup", "folder_create",
     "file_upload", "permission", "notion_stage", "contact_lookup",
     "contact_create", "order_create"}

DriveCalls == {"root_get", "folder_lookup", "folder_create", "file_upload", "permission"}
NotionCalls == {"contact_lookup", "contact_create", "order_create"}

\* The awaited call a request is suspended in, by position.
AwaitedCall ==
    [pdf |-> "render", drive_get |-> "root_get", drive_list |-> "folder_lookup",
     drive_mkdir |-> "folder_create", drive_upload |-> "file_upload",
     drive_perm |-> "permission", notion_query |-> "contact_lookup",
     notion_contact |-> "contact_create", notion_order |-> "order_create"]

DrivePcs == {"drive_get", "drive_list", "drive_mkdir", "drive_upload", "drive_perm"}

\* A stage entry of the results object, by the properties it has: a payload
\* ({generated, filePath}, the drive result, {customer, businessResource}),
\* {skipped: reason} or {error: message}. NoOutcome is the missing property.
NoOutcome == [payload |-> FALSE, skipped |-> FALSE, error |-> FALSE]
WithPayload == [NoOutcome EXCEPT !.payload = TRUE]
WithSkipped == [NoOutcome EXCEPT !.skipped = TRUE]
WithError == [NoOutcome EXCEPT !.error = TRUE]

\* The forms the requests carry: the frontend's dotted keys without an order
\* number for one vehicle, the same with a client-chosen order number for
\* another vehicle, and two forms that lack a required field.

FrontendForm(kennz) ==
    << << <<"auftraggeber", ".", "name">>, <<"Max Mustermann">> >>,
       << <<"auftraggeber", ".", "kennzeichen">>, kennz >>,
       << <<"auftraggeber", ".", "adresse">>, <<"Teststr 1">> >>,
       << <<"auftraggeber", ".", "kontakt">>, <<"max", "@", "test", ".", "de", " ", "/", " ", "0151123456">> >>,
       << <<"unfall", "_", "tag">>, <<"2025-01-01">> >>,
       << <<"unfall", "_", "ort">>, <<"Bielefeld">> >> >>

WithNr(form, nr) == << << <<"gutachtenNr">>, nr >> >> \o form

SubmittedForms ==
    { FrontendForm(<<"BI-XX 123">>),
      WithNr(FrontendForm(<<"BI-YY 456">>), <<"N1">>),
      FrontendForm(<<Blank>>),
      SubSeq(FrontendForm(<<"BI-XX 123">>), 1, 5) }

InitSub ==
    [pc |-> "idle", nr |-> Undefined, kennz |-> Undefined, verdict |-> Undefined,
     results |-> FALSE, pdf |-> NoOutcome, googleDrive |-> NoOutcome,
     notion |-> NoOutcome, filePath |-> Undefined, pdfFilePath |-> Undefined,
     googleDriveFileLink |-> Null, customerFolderId |-> Null,
     customer |-> "null", customerId |-> Null, businessResource |-> "null",
     responses |-> <<>>, calls |-> [c \in CallNames |-> 0], failed |-> {}]

\* dsGutachtenForm when no page is open
NoPage == [page |-> "closed"]

\* probe when no direct call is followed
NoProbe == [stage |-> "none"]

\* The server after construction, before any request.
ServerInit ==
    /\ subs = [s \in Subs |-> InitSub]
    /\ tempDir = {}
    /\ folders = {}
    /\ files = {}
    /\ contacts = {}
    /\ orders = {}
    /\ now = 0
    /\ notion \in BOOLEAN
    /\ env \in [drive : BOOLEAN, GOOGLE_DRIVE_ROOT_FOLDER : BOOLEAN,
                 KONTAKTE_DATABASE_ID : BOOLEAN,
                 BUSINESS_RESOURCES_DATABASE_ID : BOOLEAN]
    /\ probe = NoProbe
    /\ dsGutachtenForm = NoPage

\* Requests may arrive while others are in flight.
Init == ServerInit /\ arrivals = "concurrent"

-----------------------------------------------------------------------------
(* The code a request runs between two awaits, as updates of its record r  *)

\* The request issues the awaited call of position p and suspends there.
Await(r, p) == [r EXCEPT !.pc = p, !.calls[AwaitedCall[p]] = @ + 1]

Enter(r, stage) == [r EXCEPT !.calls[stage] = @ + 1]

\* res.json / res.status(500).json of the route handler
Respond(r, status) ==
    [r EXCEPT !.pc = "done",
              !.responses = Append(@, [status |-> status,
                                       success |-> status = 200,
                                       data |-> status = 200])]

\* processGutachtenSubmission returns results: the handler answers 200.
ReturnResults(r) == Respond(r, 200)

\* Variant: the handler's catch logs the error and sends nothing.
HandlerCatches_Silent(r) == [r EXCEPT !.pc = "done"]

\* processGutachtenSubmission throws: the handler's catch answers 500.
HandlerCatches(r) == Respond(r, 500)

\* processNotionIntegration returns {customer, businessResource}
NotionReturns(r) == ReturnResults([r EXCEPT !.notion = WithPayload])

\* Variant: the order is created only for a submission that has a contact.
CreateBusinessResource_NeedsContact(r) ==
    IF env.BUSINESS_RESOURCES_DATABASE_ID /\ r.customerId # Null
    THEN Await(r, "notion_order")
    ELSE NotionReturns(r)

\* 2. Create Business Resource entry
CreateBusinessResource(r) ==
    IF env.BUSINESS_RESOURCES_DATABASE_ID
    THEN Await(r, "notion_order")
    ELSE NotionReturns(r)

\* Variant: a missing Notion client is an error of the submission.
StartNotion_RequiresClient(r) ==
    IF notion
    THEN IF env.KONTAKTE_DATABASE_ID
         THEN Await(Enter(r, "notion_stage"), "notion_query")
         ELSE CreateBusinessResource(Enter(r, "notion_stage"))
    ELSE HandlerCatches([r EXCEPT !.notion = WithError])

\* 3. Process Notion integration
StartNotion(r) ==
    IF notion
    THEN IF env.KONTAKTE_DATABASE_ID
         THEN Await(Enter(r, "notion_stage"), "notion_query")
         ELSE CreateBusinessResource(Enter(r, "notion_stage"))
    ELSE ReturnResults([r EXCEPT !.notion = WithSkipped])

\* Variant: the upload error is rethrown to the route handler.
UploadThrows_Fatal(r) == HandlerCatches([r EXCEPT !.googleDrive = WithError])

\* Variant: the catch logs the upload error without recording it.
UploadThrows_Unrecorded(r) == StartNotion(r)

\* uploadToGoogleDrive throws; the pipeline's catch records the error.
UploadThrows(r) == StartNotion([r EXCEPT !.googleDrive = WithError])

\* Variant: record keeping is started right after rendering.
StartUpload_NotionFirst(r) == StartNotion(r)

\* 2. Upload to Google Drive
StartUpload(r) ==
    IF env.drive /\ r.pdfFilePath # Undefined
    THEN IF env.GOOGLE_DRIVE_ROOT_FOLDER
         THEN Await(Enter(r, "upload_stage"), "drive_get")
         ELSE UploadThrows([Enter(r, "upload_stage") EXCEPT
                                !.failed = @ \cup {"upload_stage"}])
    ELSE StartNotion([r EXCEPT !.googleDrive = WithSkipped])

\* The Link and Kontakte properties of the order page (Null: not set).
buildGutachtenResourceProperties(googleDriveFileLink, customerId) ==
    [link |-> IF googleDriveFileLink # Null THEN googleDriveFileLink ELSE Null,
     kontakt |-> IF customerId # Null THEN customerId ELSE Null]

-----------------------------------------------------------------------------
(* Actions                                                                 *)

Others == <<tempDir, folders, files, contacts, orders, now, notion, env, arrivals, probe, dsGutachtenForm>>

\* Variant: the write stream is opened before the form is validated.
Submit_RendersFirst(s, form, t) ==
    /\ subs[s].pc = "idle"
    /\ arrivals = "serial" => \A o \in Subs : subs[o].pc \in {"idle", "done"}
    /\ now <= t
    /\ now' = t
    /\ LET data == normalizeFormData(form, t)
           verdict == validateFormData(data)
           r == [subs[s] EXCEPT !.nr = Get(data, GutachtenNrKey),
                                !.kennz = Get(data, KennzeichenKey),
                                !.verdict = verdict,
                                !.filePath = <<Get(data, GutachtenNrKey), t>>]
       IN  /\ tempDir' = tempDir \cup {[path |-> r.filePath, writer |-> s]}
           /\ subs' = [subs EXCEPT ![s] =
                          IF verdict # <<"ok">>
                          THEN HandlerCatches(Enter(r, "render"))
                          ELSE Await([r EXCEPT !.results = TRUE], "pdf")]
    /\ UNCHANGED <<folders, files, contacts, orders, notion, env, arrivals, probe, dsGutachtenForm>>

\* POST /api/submit-gutachten arrives: normalize, validate, start rendering.
\* Under serial arrivals a request arrives only when no other is in flight.
\* The code up to the first await runs within the millisecond t >= now, which
\* both Date.now() reads (normalizeFormData, generatePDFFile) return.
Submit(s, form, t) ==
    /\ subs[s].pc = "idle"
    /\ arrivals = "serial" => \A o \in Subs : subs[o].pc \in {"idle", "done"}
    /\ now <= t
    /\ now' = t
    /\ LET data == normalizeFormData(form, t)
           verdict == validateFormData(data)
           r == [subs[s] EXCEPT !.nr = Get(data, GutachtenNrKey),
                                !.kennz = Get(data, KennzeichenKey),
                                !.verdict = verdict]
           filePath == <<r.nr, t>>
       IN  IF verdict # <<"ok">>
           THEN /\ subs' = [subs EXCEPT ![s] = HandlerCatches(r)]
                /\ tempDir' = tempDir
           ELSE /\ subs' = [subs EXCEPT ![s] =
                              Await([r EXCEPT !.results = TRUE,
                                              !.filePath = filePath], "pdf")]
                /\ tempDir' = tempDir \cup {[path |-> filePath, writer |-> s]}
    /\ UNCHANGED <<folders, files, contacts, orders, notion, env, arrivals, probe, dsGutachtenForm>>

\* The write stream closes: generatePDFFile resolves with the path.
RenderResolves(s) ==
    /\ subs[s].pc = "pdf"
    /\ subs' = [subs EXCEPT ![s] =
                   StartUpload([subs[s] EXCEPT !.pdfFilePath = subs[s].filePath,
                                               !.pdf = WithPayload])]
    /\ UNCHANGED Others

\* Variant: the render error is recorded and the pipeline goes on.
RenderRejects_Continues(s, left) ==
    /\ subs[s].pc = "pdf"
    /\ subs' = [subs EXCEPT ![s] =
                   StartUpload([subs[s] EXCEPT !.pdf = WithError,
                                               !.failed = @ \cup {"render"}])]
    /\ tempDir' = IF left THEN tempDir
                  ELSE tempDir \ {[path |-> subs[s].filePath, writer |-> s]}
    /\ UNCHANGED <<folders, files, contacts, orders, now, notion, env, arrivals, probe, dsGutachtenForm>>

\* The document or the stream fails: generatePDFFile rejects.
RenderRejects(s, left) ==
    /\ subs[s].pc = "pdf"
    /\ subs' = [subs EXCEPT ![s] =
                   HandlerCatches([subs[s] EXCEPT !.pdf = WithError,
                                                  !.failed = @ \cup {"render"}])]
    /\ tempDir' = IF left THEN tempDir
                  ELSE tempDir \ {[path |-> subs[s].filePath, writer |-> s]}
    /\ UNCHANGED <<folders, files, contacts, orders, now, notion, env, arrivals, probe, dsGutachtenForm>>

\* drive.files.get of the root folder returns.
DriveGetReturns(s) ==
    /\ subs[s].pc = "drive_get"
    /\ subs' = [subs EXCEPT ![s] = Await(subs[s], "drive_list")]
    /\ UNCHANGED Others

\* Variant: the folder is created whatever the lookup returned.
DriveListReturns_AlwaysCreates(s) ==
    /\ subs[s].pc = "drive_list"
    /\ subs' = [subs EXCEPT ![s] = Await(subs[s], "drive_mkdir")]
    /\ UNCHANGED Others

\* drive.files.list returns the folders named like the Kennzeichen; files[0]
\* is any of them (Drive states no order).
DriveListReturns(s) ==
    /\ subs[s].pc = "drive_list"
    /\ LET existingFolders == {f \in folders : f.name = subs[s].kennz}
       IN  IF existingFolders # {}
           THEN \E f \in existingFolders :
                    subs' = [subs EXCEPT ![s] =
                               Await([subs[s] EXCEPT !.customerFolderId = f.id],
                                     "drive_upload")]
           ELSE subs' = [subs EXCEPT ![s] = Await(subs[s], "drive_mkdir")]
    /\ UNCHANGED Others

\* drive.files.create of the customer folder returns.
DriveMkdirReturns(s) ==
    /\ subs[s].pc = "drive_mkdir"
    /\ folders' = folders \cup {[id |-> s, name |-> subs[s].kennz]}
    /\ subs' = [subs EXCEPT ![s] =
                   Await([subs[s] EXCEPT !.customerFolderId = s], "drive_upload")]
    /\ UNCHANGED <<tempDir, files, contacts, orders, now, notion, env, arrivals, probe, dsGutachtenForm>>

\* Variant: the file is created with public read access.
DriveUploadReturns_PublicAtCreate(s) ==
    /\ subs[s].pc = "drive_upload"
    /\ files' = files \cup {[id |-> s, folder |-> subs[s].customerFolderId,
                              source |-> subs[s].pdfFilePath, public |-> TRUE]}
    /\ subs' = [subs EXCEPT ![s] = Await(subs[s], "drive_perm")]
    /\ UNCHANGED <<tempDir, folders, contacts, orders, now, notion, env, arrivals, probe, dsGutachtenForm>>

\* Variant: the result with the link is returned right after the upload.
DriveUploadReturns_ReturnsEarly(s) ==
    /\ subs[s].pc = "drive_upload"
    /\ files' = files \cup {[id |-> s, folder |-> subs[s].customerFolderId,
                              source |-> subs[s].pdfFilePath, public |-> FALSE]}
    /\ subs' = [subs EXCEPT ![s] =
                   StartNotion([subs[s] EXCEPT !.googleDrive = WithPayload,
                                               !.googleDriveFileLink = s])]
    /\ UNCHANGED <<tempDir, folders, contacts, orders, now, notion, env, arrivals, probe, dsGutachtenForm>>

\* drive.files.create of the PDF returns: the content read from pdfFilePath
\* is stored under the customer folder.
DriveUploadReturns(s) ==
    /\ subs[s].pc = "drive_upload"
    /\ files' = files \cup {[id |-> s, folder |-> subs[s].customerFolderId,
                              source |-> subs[s].pdfFilePath, public |-> FALSE]}
    /\ subs' = [subs EXCEPT ![s] = Await(subs[s], "drive_perm")]
    /\ UNCHANGED <<tempDir, folders, contacts, orders, now, notion, env, arrivals, probe, dsGutachtenForm>>

\* drive.permissions.create returns: uploadToGoogleDrive returns its result.
DrivePermReturns(s) ==
    /\ subs[s].pc = "drive_perm"
    /\ files' = {IF f.id = s THEN [f EXCEPT !.public = TRUE] ELSE f : f \in files}
    /\ subs' = [subs EXCEPT ![s] =
                   StartNotion([subs[s] EXCEPT !.googleDrive = WithPayload,
                                               !.googleDriveFileLink = s])]
    /\ UNCHANGED <<tempDir, folders, contacts, orders, now, notion, env, arrivals, probe, dsGutachtenForm>>

\* Variant: a failed Drive call is issued again.
DriveCallFails_Retries(s) ==
    /\ subs[s].pc \in DrivePcs
    /\ subs' = [subs EXCEPT ![s] =
                   Await([subs[s] EXCEPT
                              !.failed = @ \cup {AwaitedCall[subs[s].pc]}],
                         subs[s].pc)]
    /\ UNCHANGED Others

\* Any awaited Drive call fails: the catch of uploadToGoogleDrive rethrows.
DriveCallFails(s) ==
    /\ subs[s].pc \in DrivePcs
    /\ subs' = [subs EXCEPT ![s] =
                   UploadThrows([subs[s] EXCEPT
                                     !.failed = @ \cup {AwaitedCall[subs[s].pc]}])]
    /\ UNCHANGED Others

\* notion.databases.query returns: results[0] is any page with the Kennzeichen.
NotionQueryReturns(s) ==
    /\ subs[s].pc = "notion_query"
    /\ LET results == {c \in contacts : c.kennzeichen = subs[s].kennz}
       IN  IF results # {}
           THEN \E existingCustomer \in results :
                    subs' = [subs EXCEPT ![s] =
                               CreateBusinessResource(
                                   [subs[s] EXCEPT !.customer = "found_existing",
                                                   !.customerId = existingCustomer.id])]
           ELSE subs' = [subs EXCEPT ![s] = Await(subs[s], "notion_contact")]
    /\ UNCHANGED Others

\* notion.databases.query fails: findCustomerByKennzeichen returns null.
NotionQueryFails(s) ==
    /\ subs[s].pc = "notion_query"
    /\ subs' = [subs EXCEPT ![s] =
                   Await([subs[s] EXCEPT !.failed = @ \cup {"contact_lookup"}],
                         "notion_contact")]
    /\ UNCHANGED Others

\* Variant: the contact creation reuses a page that has the Kennzeichen.
NotionContactReturns_Upsert(s) ==
    /\ subs[s].pc = "notion_contact"
    /\ LET same == {c \in contacts : c.kennzeichen = subs[s].kennz}
           id == IF same = {} THEN s ELSE (CHOOSE c \in same : TRUE).id
       IN  /\ contacts' = contacts \cup {[id |-> id, kennzeichen |-> subs[s].kennz]}
           /\ subs' = [subs EXCEPT ![s] =
                          CreateBusinessResource([subs[s] EXCEPT !.customer = "created",
                                                                 !.customerId = id])]
    /\ UNCHANGED <<tempDir, folders, files, orders, now, notion, env, arrivals, probe, dsGutachtenForm>>

\* notion.pages.create of the contact returns.
NotionContactReturns(s) ==
    /\ subs[s].pc = "notion_contact"
    /\ contacts' = contacts \cup {[id |-> s, kennzeichen |-> subs[s].kennz]}
    /\ subs' = [subs EXCEPT ![s] =
                   CreateBusinessResource([subs[s] EXCEPT !.customer = "created",
                                                          !.customerId = s])]
    /\ UNCHANGED <<tempDir, folders, files, orders, now, notion, env, arrivals, probe, dsGutachtenForm>>

\* notion.pages.create of the contact fails: customer = { error }.
NotionContactFails(s) ==
    /\ subs[s].pc = "notion_contact"
    /\ subs' = [subs EXCEPT ![s] =
                   CreateBusinessResource(
                       [subs[s] EXCEPT !.customer = "error",
                                       !.failed = @ \cup {"contact_create"}])]
    /\ UNCHANGED Others

\* notion.pages.create of the order returns.
NotionOrderReturns(s) ==
    /\ subs[s].pc = "notion_order"
    /\ LET properties == buildGutachtenResourceProperties(
                             subs[s].googleDriveFileLink, subs[s].customerId)
       IN  orders' = orders \cup {[id |-> s, link |-> properties.link,
                                   kontakt |-> properties.kontakt]}
    /\ subs' = [subs EXCEPT ![s] =
                   NotionReturns([subs[s] EXCEPT !.businessResource = "created"])]
    /\ UNCHANGED <<tempDir, folders, files, contacts, now, notion, env, arrivals, probe, dsGutachtenForm>>

\* Variant: the failure of the order creation is swallowed and the order is
\* reported as created.
NotionOrderFails_Swallowed(s) ==
    /\ subs[s].pc = "notion_order"
    /\ subs' = [subs EXCEPT ![s] =
                   NotionReturns([subs[s] EXCEPT
                                      !.businessResource = "created",
                                      !.failed = @ \cup {"order_create"}])]
    /\ UNCHANGED Others

\* notion.pages.create of the order fails: businessResource = { error }.
NotionOrderFails(s) ==
    /\ subs[s].pc = "notion_order"
    /\ subs' = [subs EXCEPT ![s] =
                   NotionReturns([subs[s] EXCEPT
                                      !.businessResource = "error",
                                      !.failed = @ \cup {"order_create"}])]
    /\ UNCHANGED Others

\* GET /admin/set-notion-token?token=...
AdminTokens == {<<"ntn_", "secret">>, <<"secret">>, <<>>}

SetNotionToken(token) ==
    /\ notion' = IF ~Falsy(token) /\ Head(token) = "ntn_" THEN TRUE ELSE notion
    /\ UNCHANGED <<subs, tempDir, folders, files, contacts, orders, now, env, arrivals, probe, dsGutachtenForm>>

Next ==
    \/ \E s \in Subs, form \in SubmittedForms, t \in Clock : Submit(s, form, t)
    \/ \E s \in Subs : RenderResolves(s)
    \/ \E s \in Subs, left \in BOOLEAN : RenderRejects(s, left)
    \/ \E s \in Subs : DriveGetReturns(s)
    \/ \E s \in Subs : DriveListReturns(s)
    \/ \E s \in Subs : DriveMkdirReturns(s)
    \/ \E s \in Subs : DriveUploadReturns(s)
    \/ \E s \in Subs : DrivePermReturns(s)
    \/ \E s \in Subs : DriveCallFails(s)
    \/ \E s \in Subs : NotionQueryReturns(s)
    \/ \E s \in Subs : NotionQueryFails(s)
    \/ \E s \in Subs : NotionContactReturns(s)
    \/ \E s \in Subs : NotionContactFails(s)
    \/ \E s \in Subs : NotionOrderReturns(s)
    \/ \E s \in Subs : NotionOrderFails(s)
    \/ \E token \in AdminTokens : SetNotionToken(token)

Spec == Init /\ [][Next]_vars

\* Every awaited call of a request returns or fails: a suspended request is
\* eventually resumed.
Resume(s) ==
    \/ RenderResolves(s)
    \/ \E left \in BOOLEAN : RenderRejects(s, left)
    \/ DriveGetReturns(s)
    \/ DriveListReturns(s)
    \/ DriveMkdirReturns(s)
    \/ DriveUploadReturns(s)
    \/ DrivePermReturns(s)
    \/ DriveCallFails(s)
    \/ NotionQueryReturns(s)
    \/ NotionQueryFails(s)
    \/ NotionContactReturns(s)
    \/ NotionContactFails(s)
    \/ NotionOrderReturns(s)
    \/ NotionOrderFails(s)

FairSpec == Spec /\ \A s \in Subs : WF_vars(Resume(s))

\* Non-concurrent execution: a request arrives after the previous one has
\* been answered.
SerialInit == ServerInit /\ arrivals = "serial"
SerialSpec == SerialInit /\ [][Next]_vars

\* Both arrival disciplines, chosen at start.
AnyArrivalInit == ServerInit /\ arrivals \in {"concurrent", "serial"}
AnyArrivalSpec == AnyArrivalInit /\ [][Next]_vars

-----------------------------------------------------------------------------
(* Direct calls of normalizeFormData and validateFormData                  *)

\* Bounds of the inputs of the direct calls: entries of a key-shape form,
\* required fields left out or blanked, wraps of the last six clock digits.
MaxKeys == 2
MaxMissing == 2
MaxWraps == 2

\* Key shapes: dotted with two and three segments, the underscore spelling of
\* the first, the alias and the three spellings of the order number, an
\* inherited property name, a dotted spelling of __proto__, a plain key.
ProbeKeys ==
    { <<"a", ".", "b">>, <<"a", "_", "b">>, <<"a", ".", "b", ".", "c">>,
      <<"gutachtenNr">>, <<"gutachten", ".", "nr">>, GutachtenNrKey,
      <<"constructor">>, <<"_", ".", "proto", "_", "_">>, <<"x">> }

\* The value of the i-th entry, different for every entry of a form.
ProbeValue(i) == <<"v", ToString(i)>>

\* Forms of up to MaxKeys entries with distinct keys, each value the entry's
\* own or the empty string.
KeyForms ==
    UNION { { [i \in 1 .. n |-> <<ks[i], IF i \in e THEN <<>> ELSE ProbeValue(i)>>] :
                  ks \in {f \in [1 .. n -> ProbeKeys] :
                             \A i, j \in 1 .. n : f[i] = f[j] => i = j},
                  e \in SUBSET (1 .. n) } :
            n \in 1 .. MaxKeys }

\* A record with all seven required fields, the contact string as given.
CompleteForm(kontakt) ==
    << <<GutachtenNrKey, <<"N1">>>>,
       << <<"auftraggeber", "_", "name">>, <<"Max", " ", "Mustermann">> >>,
       << <<"auftraggeber", "_", "adresse">>, <<"Teststr", " ", "1">> >>,
       << <<"auftraggeber", "_", "kontakt">>, kontakt >>,
       << KennzeichenKey, <<"BI-XX", " ", "123">> >>,
       << <<"unfall", "_", "tag">>, <<"2025-01-01">> >>,
       << <<"unfall", "_", "ort">>, <<"Bielefeld">> >> >>

Email == <<"max", "@", "test", ".", "de">>
Phone == <<"0151123456">>

\* The complete form with up to MaxMissing fields left out, empty or blank.
Defects == {"absent", "empty", "blank", "padded"}
DefectForms ==
    LET base == CompleteForm(Email \o <<Blank, Slash, Blank>> \o Phone)
        Spoil(d) ==
            LET Kept(i) == i \notin DOMAIN d \/ d[i] # "absent"
                Entry(i) ==
                    IF i \notin DOMAIN d THEN base[i]
                    ELSE <<base[i][1],
                           CASE d[i] = "empty" -> <<>>
                             [] d[i] = "blank" -> <<Blank, Blank>>
                             [] OTHER -> <<Blank>> \o base[i][2] \o <<Blank>> >>
                RECURSIVE From(_)
                From(i) == IF i > Len(base) THEN <<>>
                           ELSE IF Kept(i) THEN <<Entry(i)>> \o From(i + 1)
                           ELSE From(i + 1)
            IN  From(1)
    IN  { Spoil(d) : d \in UNION { [m -> Defects] :
                                     m \in {x \in SUBSET (1 .. Len(base)) :
                                               Cardinality(x) <= MaxMissing} } }

\* Contact strings: with and without '/', with and without an email address.
ContactSamples ==
    { Email, Phone, <<"max", "@", "test">>, <<"max", Blank, "@", "test", ".", "de">>,
      Phone \o <<Blank, Slash, Blank>> \o Email,
      <<"a", Slash, "b", Slash, "c">>, <<Slash>>, <<"@">>,
      Email \o <<Blank, Slash, Blank, "0521", Slash, "123456">>,
      <<Blank, Slash, Blank>> \o Phone }

ContactForms == { CompleteForm(k) : k \in ContactSamples }

\* Signature values: the data URL of an empty canvas, a PNG data URL, a data
\* URL whose payload is no image, PNG data without the prefix, the empty
\* string.
UnterschriftKey == <<"unterschrift">>
DataUrlPrefix == "data:image/png;base64,"
PngData == "iVBORw0KGgo"
SignatureSamples ==
    { <<"data:,">>, <<DataUrlPrefix, PngData>>, <<DataUrlPrefix, "AAAA">>,
      <<PngData>>, <<>> }

SignatureForms ==
    { CompleteForm(Email \o <<Blank, Slash, Blank>> \o Phone)
          \o << <<UnterschriftKey, u>> >> : u \in SignatureSamples }

ProbeForms == KeyForms \cup DefectForms \cup ContactForms \cup SignatureForms

\* Clock values around the wraps of the last six digits.
ProbeTimes == { w * 10 ^ SliceLength + c : w \in 0 .. MaxWraps, c \in Clock }

NoCall == [t |-> 0, nr |-> Undefined]

\* The document and the contact properties before they are built.
NoDocument ==
    [email |-> Undefined, phone |-> Undefined, signature |-> "none",
     ended |-> FALSE, rejected |-> FALSE]
NoProperties == [email |-> Undefined, phone |-> Undefined]

InitProbe(data) ==
    [stage |-> "raw", data |-> data, t |-> 0, normalized |-> EmptyObject,
     verdict |-> Undefined, resultNr |-> Undefined, first |-> NoCall,
     pdf |-> NoDocument, kontakte |-> NoProperties]

\* No server activity: only the direct calls are followed.
FormInit ==
    /\ subs = [s \in Subs |-> InitSub]
    /\ tempDir = {}
    /\ folders = {}
    /\ files = {}
    /\ contacts = {}
    /\ orders = {}
    /\ now = 0
    /\ notion = FALSE
    /\ env = [drive |-> FALSE, GOOGLE_DRIVE_ROOT_FOLDER |-> FALSE,
              KONTAKTE_DATABASE_ID |-> FALSE,
              BUSINESS_RESOURCES_DATABASE_ID |-> FALSE]
    /\ arrivals = "serial"
    /\ probe \in {InitProbe(data) : data \in ProbeForms}
    /\ dsGutachtenForm = NoPage

Server == <<subs, tempDir, folders, files, contacts, orders, now, notion, env, arrivals>>

\* formData = this.normalizeFormData(formData), at clock value t
ProbeNormalize(t) ==
    /\ probe.stage = "raw"
    /\ probe' = [probe EXCEPT !.stage = "normalized", !.t = t,
                              !.normalized = normalizeFormData(probe.data, t)]
    /\ UNCHANGED <<Server, dsGutachtenForm>>

\* this.validateFormData(formData)
ProbeValidate ==
    /\ probe.stage = "normalized"
    /\ probe' = [probe EXCEPT !.stage = "validated",
                              !.verdict = validateFormData(probe.normalized)]
    /\ UNCHANGED <<Server, dsGutachtenForm>>

\* const results = { timestamp, gutachten_nr: formData.gutachten_nr }
ProbeResults ==
    /\ probe.stage = "validated"
    /\ probe.verdict = <<"ok">>
    /\ probe' = [probe EXCEPT !.stage = "results",
                              !.resultNr = Get(probe.normalized, GutachtenNrKey)]
    /\ UNCHANGED <<Server, dsGutachtenForm>>

\* The same form arrives once more at a later clock value t.
ProbeRepeat(t) ==
    /\ probe.stage = "validated"
    /\ probe.t <= t
    /\ probe' = [probe EXCEPT !.stage = "repeated", !.t = t,
                              !.normalized = normalizeFormData(probe.data, t),
                              !.first = [t |-> probe.t,
                                         nr |-> Get(probe.normalized, GutachtenNrKey)]]
    /\ UNCHANGED <<Server, dsGutachtenForm>>

\* The contact lines of the document: kontakt.split('/').map(p => p.trim()),
\* kontaktParts[0] || '' and kontaktParts[1] || ''
PdfContact(data) ==
    LET value == Get(data, <<"auftraggeber", "_", "kontakt">>)
        kontakt == IF Falsy(value) THEN <<>> ELSE value
        split == SplitOn(kontakt, Slash)
        kontaktParts == [i \in 1 .. Len(split) |-> Trim(split[i])]
    IN  [email |-> IF Falsy(kontaktParts[1]) THEN <<>> ELSE kontaktParts[1],
         phone |-> IF Len(kontaktParts) >= 2 /\ ~Falsy(kontaktParts[2])
                   THEN kontaktParts[2] ELSE <<>>]

\* doc.image(Buffer.from(signatureData, 'base64'), ...) throws unless the
\* bytes are an image; signatureData is the value without the data URL prefix.
ImageThrows(unterschrift) ==
    LET signatureData == IF Head(unterschrift) = DataUrlPrefix
                         THEN Tail(unterschrift) ELSE unterschrift
    IN  signatureData # <<PngData>>

\* Variant: the image is added without the try/catch around it.
AddSignature_Uncaught(data) ==
    LET unterschrift == Get(data, UnterschriftKey)
    IN  IF ~Falsy(unterschrift) /\ unterschrift # <<"data:,">>
        THEN IF ImageThrows(unterschrift) THEN "threw" ELSE "embedded"
        ELSE "none"

\* Add signature if provided: embedded, skipped by the catch, or none.
AddSignature(data) ==
    LET unterschrift == Get(data, UnterschriftKey)
    IN  IF ~Falsy(unterschrift) /\ unterschrift # <<"data:,">>
        THEN IF ImageThrows(unterschrift) THEN "skipped" ELSE "embedded"
        ELSE "none"

\* The body of generatePDFFile's executor up to doc.end(); an exception that
\* escapes lands in the outer catch, which rejects without ending the document.
PdfBody(data) ==
    LET contact == PdfContact(data)
        signature == AddSignature(data)
    IN  [email |-> contact.email, phone |-> contact.phone, signature |-> signature,
         ended |-> signature # "threw", rejected |-> signature = "threw"]

\* The email and phone of buildKontakteProperties
KontakteContact(data) ==
    LET value == Get(data, <<"auftraggeber", "_", "kontakt">>)
        kontaktParts == IF ~Falsy(value) THEN SplitOn(value, Slash) ELSE << <<>>, <<>> >>
    IN  [email |-> IF ~Falsy(kontaktParts[1]) THEN Trim(kontaktParts[1]) ELSE <<>>,
         phone |-> IF Len(kontaktParts) >= 2 /\ ~Falsy(kontaktParts[2])
                   THEN Trim(kontaktParts[2]) ELSE <<>>]

\* pdfFilePath = await this.generatePDFFile(formData): the document is written.
ProbeRender ==
    /\ probe.stage = "results"
    /\ probe' = [probe EXCEPT !.stage = "rendered",
                              !.pdf = PdfBody(probe.normalized)]
    /\ UNCHANGED <<Server, dsGutachtenForm>>

\* properties: this.buildKontakteProperties(formData)
ProbeBuildKontakte ==
    /\ probe.stage = "rendered"
    /\ probe.pdf.ended
    /\ probe' = [probe EXCEPT !.stage = "kontakte",
                              !.kontakte = KontakteContact(probe.normalized)]
    /\ UNCHANGED <<Server, dsGutachtenForm>>

FormNext ==
    \/ \E t \in ProbeTimes : ProbeNormalize(t)
    \/ ProbeValidate
    \/ ProbeResults
    \/ \E t \in ProbeTimes : ProbeRepeat(t)
    \/ ProbeRender
    \/ ProbeBuildKontakte

FormSpec == FormInit /\ [][FormNext]_vars

-----------------------------------------------------------------------------
(* The form object of the browser page (public/app.js): the signature       *)
(* canvas, the stored signature and the submit handler                      *)

MaxPoints == 2
MaxTimers == 1

\* The positions getEventPos returns.
Points == 1 .. MaxPoints

\* this.signatureData = '' and canvas.toDataURL(): the PNG of what the canvas
\* shows, also when it shows nothing.
NoSignatureData == [mime |-> "", pixels |-> {}]
toDataURL(canvas) == [mime |-> "image/png", pixels |-> canvas]

NoBody == [sent |-> FALSE, signature |-> NoSignatureData, shown |-> {}]

\* new DSGutachtenForm(): initializeForm, initializeSignature (the canvas is
\* cleared), setupEventListeners.
ClientInit ==
    /\ subs = [s \in Subs |-> InitSub]
    /\ tempDir = {}
    /\ folders = {}
    /\ files = {}
    /\ contacts = {}
    /\ orders = {}
    /\ now = 0
    /\ notion = FALSE
    /\ env = [drive |-> FALSE, GOOGLE_DRIVE_ROOT_FOLDER |-> FALSE,
              KONTAKTE_DATABASE_ID |-> FALSE,
              BUSINESS_RESOURCES_DATABASE_ID |-> FALSE]
    /\ arrivals = "serial"
    /\ probe = NoProbe
    /\ dsGutachtenForm =
           [page |-> "open", canvas |-> {}, pen |-> 0, isDrawing |-> FALSE,
            signatureData |-> NoSignatureData, signatureError |-> FALSE,
            submitDisabled |-> FALSE, timers |-> 0, body |-> NoBody]

Page == <<subs, tempDir, folders, files, contacts, orders, now, notion, env, arrivals, probe>>

\* mousedown, touchstart: startDrawing(e)
startDrawing(pos) ==
    /\ dsGutachtenForm.page = "open"
    /\ dsGutachtenForm' = [dsGutachtenForm EXCEPT !.isDrawing = TRUE, !.pen = pos]
    /\ UNCHANGED Page

\* mousemove, touchmove: draw(e) strokes a line from the pen to the position.
draw(pos) ==
    /\ dsGutachtenForm.page = "open"
    /\ dsGutachtenForm.isDrawing
    /\ dsGutachtenForm' =
           [dsGutachtenForm EXCEPT
                !.canvas = @ \cup {<<dsGutachtenForm.pen, pos>>},
                !.pen = pos]
    /\ UNCHANGED Page

\* mouseup, mouseout, touchend: stopDrawing() stores the canvas as data URL.
stopDrawing ==
    /\ dsGutachtenForm.page = "open"
    /\ dsGutachtenForm.isDrawing
    /\ dsGutachtenForm' =
           [dsGutachtenForm EXCEPT
                !.isDrawing = FALSE,
                !.signatureData = toDataURL(dsGutachtenForm.canvas)]
    /\ UNCHANGED Page

\* clearSignature() on a form object f
ClearSignature(f) ==
    [f EXCEPT !.canvas = {}, !.signatureData = NoSignatureData]

\* click on the clear button
clearSignature ==
    /\ dsGutachtenForm.page = "open"
    /\ dsGutachtenForm' = ClearSignature(dsGutachtenForm)
    /\ UNCHANGED Page

\* window resize: the listener sets a timeout of 100 ms.
resize ==
    /\ dsGutachtenForm.page = "open"
    /\ dsGutachtenForm.timers < MaxTimers
    /\ dsGutachtenForm' = [dsGutachtenForm EXCEPT !.timers = @ + 1]
    /\ UNCHANGED Page

\* initializeSignature() on a form object f: the context is set up again and
\* the canvas is cleared.
InitializeSignature(f) == [f EXCEPT !.canvas = {}]

\* The timeout of a resize fires: form.initializeSignature()
resizeTimeout ==
    /\ dsGutachtenForm.page = "open"
    /\ dsGutachtenForm.timers > 0
    /\ dsGutachtenForm' =
           InitializeSignature([dsGutachtenForm EXCEPT !.timers = @ - 1])
    /\ UNCHANGED Page

\* validateForm(): every required field passes validateField (fieldsValid)
\* and a signature is stored.
validateForm(f, fieldsValid) == fieldsValid /\ f.signatureData.mime # ""

\* collectFormData(): data.signature = this.signatureData; shown records what
\* the canvas showed when the body was collected.
collectFormData(f) ==
    [sent |-> TRUE, signature |-> f.signatureData, shown |-> f.canvas]

\* submit: handleSubmit(e) up to the return after a failed validation or to
\* the await of fetch.
handleSubmit(fieldsValid) ==
    /\ dsGutachtenForm.page = "open"
    /\ ~dsGutachtenForm.submitDisabled
    /\ LET f == [dsGutachtenForm EXCEPT
                     !.signatureError = @ \/ dsGutachtenForm.signatureData.mime = ""]
       IN  dsGutachtenForm' =
               IF validateForm(dsGutachtenForm, fieldsValid)
               THEN [f EXCEPT !.submitDisabled = TRUE, !.body = collectFormData(f)]
               ELSE f
    /\ UNCHANGED Page

\* resetForm() on a form object f
ResetForm(f) == [ClearSignature(f) EXCEPT !.signatureError = FALSE]

\* fetch and response.json() return: with response.ok the form is reset;
\* otherwise, or when one of them rejects, the error message is shown. The
\* finally block enables the button again.
handleSubmitResumes(ok) ==
    /\ dsGutachtenForm.page = "open"
    /\ dsGutachtenForm.submitDisabled
    /\ dsGutachtenForm' =
           [(IF ok THEN ResetForm(dsGutachtenForm) ELSE dsGutachtenForm)
                EXCEPT !.submitDisabled = FALSE]
    /\ UNCHANGED Page

ClientNext ==
    \/ \E pos \in Points : startDrawing(pos)
    \/ \E pos \in Points : draw(pos)
    \/ stopDrawing
    \/ clearSignature
    \/ resize
    \/ resizeTimeout
    \/ \E fieldsValid \in BOOLEAN : handleSubmit(fieldsValid)
    \/ \E ok \in BOOLEAN : handleSubmitResumes(ok)

ClientSpec == ClientInit /\ [][ClientNext]_vars

-----------------------------------------------------------------------------
(* Properties of the submission pipeline                                   *)

Ok == <<"ok">>
Done(s) == subs[s].pc = "done"
Calls(s, c) == subs[s].calls[c]
Answered(s, status) ==
    /\ Len(subs[s].responses) = 1
    /\ subs[s].responses[1].status = status
\* What the request has left in the collaborators and the temp directory.
TempFilesOf(s) == {f \in tempDir : f.writer = s}
OrdersOf(s) == {o \in orders : o.id = s}
Untouched(s) ==
    /\ TempFilesOf(s) = {}
    /\ \A f \in folders : f.id # s
    /\ \A f \in files : f.id # s
    /\ \A c \in contacts : c.id # s
    /\ OrdersOf(s) = {}
UploadFailed(s) == subs[s].googleDrive.error
ExactlyOneKind(o) ==
    Cardinality({k \in {"payload", "skipped", "error"} : o[k]}) = 1

\* C1: a submission whose normalized record fails validateFormData is
\* answered with an error and has made no call at all: no render, no Drive
\* call, no Notion call, and it has left nothing in the temp directory, in
\* Drive or in Notion.
C1_InvalidHasNoSideEffect ==
    \A s \in Subs :
        (subs[s].verdict # Undefined /\ subs[s].verdict # Ok)
            => /\ \A c \in CallNames : Calls(s, c) = 0
               /\ Untouched(s)
               /\ Done(s)
               /\ Answered(s, 500)

\* A rejected submission next to one that is past rendering.
C1_Witness ==
    \E s, o \in Subs :
        /\ subs[s].verdict # Undefined /\ subs[s].verdict # Ok /\ Done(s)
        /\ Calls(o, "render") = 1 /\ subs[o].pdf.payload

\* C2: when generatePDFFile fails the submission is answered as a failure
\* (no results are returned) and neither the upload stage nor the record
\* keeping stage is entered, nor any of their calls made.
C2_RenderFailureIsFatal ==
    \A s \in Subs :
        "render" \in subs[s].failed
            => /\ Done(s)
               /\ Answered(s, 500)
               /\ ~subs[s].responses[1].data
               /\ \A c \in CallNames \ {"render"} : Calls(s, c) = 0
               /\ subs[s].googleDrive = NoOutcome
               /\ subs[s].notion = NoOutcome

\* Rendering failed although both collaborators are configured.
C2_Witness ==
    \E s \in Subs :
        /\ "render" \in subs[s].failed
        /\ env.drive /\ notion /\ env.KONTAKTE_DATABASE_ID

\* The upload of s fails in this step.
C3_UploadFailsNow(s) == ~subs[s].googleDrive.error /\ subs'[s].googleDrive.error

\* C3: when rendering succeeded and the upload fails (at any step), the
\* failure is recorded in results.googleDrive, the pipeline goes on to the
\* record keeping stage in the same step (processNotionIntegration is entered
\* if the Notion client is configured), the submission is answered 200 with
\* the results, and the order entry it creates has no Link.
C3_UploadFailureIsNotFatal ==
    /\ [](\A s \in Subs :
            UploadFailed(s)
                => /\ subs[s].pdf.payload
                   /\ subs[s].googleDriveFileLink = Null
                   /\ \A o \in OrdersOf(s) : o.link = Null
                   /\ Done(s) => Answered(s, 200) /\ subs[s].responses[1].data
                   /\ Done(s) => subs[s].notion # NoOutcome)
    /\ [][\A s \in Subs :
            C3_UploadFailsNow(s)
                => /\ subs'[s].pc \in {"notion_query", "notion_order", "done"}
                   /\ notion => subs'[s].calls["notion_stage"] = 1]_vars

\* An upload failed and the order entry was still created, without a link.
C3_Witness ==
    \E s \in Subs :
        /\ UploadFailed(s) /\ Done(s)
        /\ subs[s].failed \cap DriveCalls # {}
        /\ subs[s].businessResource = "created"
        /\ OrdersOf(s) # {}

\* C4 (as claimed): after a successful render, a failed record keeping call
\* (contact lookup, contact creation, order creation) leaves the submission
\* answered 200 with results in which that failure is recorded.
C4_RecordKeepingFailureRecorded ==
    \A s \in Subs :
        (Done(s) /\ subs[s].failed \cap NotionCalls # {})
            => /\ Answered(s, 200)
               /\ \/ subs[s].notion.error
                  \/ subs[s].notion.payload
                        /\ ("contact_lookup" \in subs[s].failed
                                \/ "contact_create" \in subs[s].failed
                                => subs[s].customer = "error")
                        /\ ("order_create" \in subs[s].failed
                                => subs[s].businessResource = "error")

\* The stage a position belongs to: 0 received, 1 render, 2 upload,
\* 3 record keeping, 4 answered.
StageOf(pc) ==
    IF pc = "idle" THEN 0
    ELSE IF pc = "pdf" THEN 1
    ELSE IF pc \in DrivePcs THEN 2
    ELSE IF pc = "done" THEN 4
    ELSE 3

Issues(s, c) == subs'[s].calls[c] > subs[s].calls[c]

\* C5: the stages of a submission run in the order normalize and validate,
\* render, upload, record keeping. A request never moves back to an earlier
\* stage and enters no stage twice; rendering starts only for a validated
\* record; the upload stage and every Drive call start only when rendering
\* has succeeded; the record keeping stage and every Notion call start only
\* when the upload stage has ended (succeeded, failed or skipped).
C5_StagesInOrder ==
    [][\A s \in Subs :
        /\ StageOf(subs'[s].pc) >= StageOf(subs[s].pc)
        /\ subs'[s].pc # "idle" => subs'[s].verdict # Undefined
        /\ Issues(s, "render") => subs[s].pc = "idle" /\ subs'[s].verdict = Ok
        /\ Issues(s, "upload_stage")
              => /\ subs[s].pc = "pdf" /\ subs'[s].pdf.payload
                 /\ \A n \in NotionCalls \cup {"notion_stage"} : subs[s].calls[n] = 0
        /\ (\E c \in DriveCalls : Issues(s, c))
              => /\ subs'[s].pdf.payload
                 /\ subs'[s].googleDrive = NoOutcome
                 /\ subs'[s].pc \in DrivePcs
                 /\ \A n \in NotionCalls \cup {"notion_stage"} : subs'[s].calls[n] = 0
        /\ (\E c \in NotionCalls \cup {"notion_stage"} : Issues(s, c))
              => /\ subs'[s].pdf.payload
                 /\ ExactlyOneKind(subs'[s].googleDrive)
                 /\ StageOf(subs'[s].pc) >= 3
        /\ \A c \in {"render", "upload_stage", "notion_stage"} :
              subs'[s].calls[c] <= 1]_vars

\* A submission that went through all three stages.
C5_Witness ==
    \E s \in Subs :
        /\ Done(s)
        /\ Calls(s, "render") = 1
        /\ Calls(s, "permission") = 1
        /\ Calls(s, "order_create") = 1

\* C6: no call is made twice for one submission, whatever the outcomes:
\* at most one render, root lookup, folder lookup, folder creation, file
\* upload, permission grant, contact lookup, contact creation and order
\* creation, and each stage is entered at most once.
C6_NoRetry == \A s \in Subs : \A c \in CallNames : Calls(s, c) <= 1

\* A submission that has finished after a Drive call and a Notion call failed.
C6_Witness ==
    \E s \in Subs :
        /\ Done(s)
        /\ subs[s].failed \cap DriveCalls # {}
        /\ subs[s].failed \cap NotionCalls # {}

\* C7: the results returned by processGutachtenSubmission have an entry for
\* each of pdf, googleDrive and notion, and each entry is exactly one of a
\* payload, {skipped} or {error}.
C7_EveryStageHasOneOutcome ==
    \A s \in Subs :
        (Len(subs[s].responses) > 0 /\ subs[s].responses[1].data)
            => /\ subs[s].results
               /\ ExactlyOneKind(subs[s].pdf)
               /\ ExactlyOneKind(subs[s].googleDrive)
               /\ ExactlyOneKind(subs[s].notion)

\* Results returned with a failed upload and a record keeping payload.
C7_Witness ==
    \E s \in Subs :
        /\ Answered(s, 200)
        /\ subs[s].googleDrive.error
        /\ subs[s].notion.payload

\* The answer of a request: one at most, present exactly when the handler has
\* finished, 500 exactly when validation or rendering threw.
C8_AnsweredOnce(s) ==
    /\ Len(subs[s].responses) <= 1
    /\ Done(s) <=> Len(subs[s].responses) = 1
    /\ Done(s) =>
          LET res == subs[s].responses[1]
              threw == subs[s].verdict # Ok \/ "render" \in subs[s].failed
          IN  /\ res.status \in {200, 500}
              /\ res.status = 500 <=> threw
              /\ res.status = 200 <=> res.success
              /\ res.status = 200 <=> res.data
              /\ res.data => subs[s].notion # NoOutcome

\* C8: every request that reached the handler is answered exactly once when
\* every awaited call returns or fails: never twice, 200 with the results
\* exactly when the pipeline returned them (all three stage entries set), 500
\* without data exactly when validation or rendering threw, and a request
\* that is not yet answered eventually is.
C8_ExactlyOneResponse ==
    /\ [](\A s \in Subs : C8_AnsweredOnce(s))
    /\ \A s \in Subs :
          (subs[s].pc # "idle") ~> (Len(subs[s].responses) = 1)

\* One request answered 200 and another answered 500.
C8_Witness ==
    \E s, o \in Subs : Answered(s, 200) /\ Answered(o, 500)

\* C9 (as claimed): once the pipeline has finished, whatever the outcome of
\* the upload stage, the temp file the submission rendered no longer exists.
C9_TempFileRemoved ==
    \A s \in Subs :
        (Done(s) /\ subs[s].googleDrive # NoOutcome) => TempFilesOf(s) = {}

InFlight(s) == subs[s].pc \notin {"idle", "done"}

\* C10 (as claimed): two submissions in flight at the same time never have
\* the same temp file path, and no Drive file is read from a path that
\* another submission has written.
C10_TempPathsDistinct ==
    /\ \A s, o \in Subs :
          (s # o /\ InFlight(s) /\ InFlight(o))
              => subs[s].filePath # subs[o].filePath
    /\ \A f \in files : \A t \in tempDir :
          t.path = f.source => t.writer = f.id

-----------------------------------------------------------------------------
(* Properties of folder and contact reuse                                  *)

FoldersNamed(key) == {f \in folders : f.name = key}
ContactsWith(key) == {c \in contacts : c.kennzeichen = key}
SameKey(s, o) == s # o /\ subs[s].kennz # Undefined /\ subs[s].kennz = subs[o].kennz
Uploaded(s) == subs[s].googleDrive.payload

\* C11: under serial arrivals, when two uploads with the same Kennzeichen
\* have both succeeded (every Drive call of both returned), exactly one folder
\* of that name exists, only the upload that created it issued a folder
\* creation (the other found the folder and reused it), and the files of
\* both lie in that one folder.
C11_SerialUploadsShareOneFolder ==
    \A s, o \in Subs :
        (SameKey(s, o) /\ Uploaded(s) /\ Uploaded(o))
            => /\ Cardinality(FoldersNamed(subs[s].kennz)) = 1
               /\ Calls(s, "folder_create") + Calls(o, "folder_create") <= 1
               /\ Calls(s, "folder_lookup") = 1 /\ Calls(o, "folder_lookup") = 1
               /\ \A f \in FoldersNamed(subs[s].kennz) :
                      /\ Calls(s, "folder_create") = IF f.id = s THEN 1 ELSE 0
                      /\ Calls(o, "folder_create") = IF f.id = o THEN 1 ELSE 0
                      /\ subs[s].customerFolderId = f.id
                      /\ subs[o].customerFolderId = f.id
                      /\ \E x, y \in files :
                             /\ x.id = s /\ y.id = o
                             /\ x.folder = f.id /\ y.folder = f.id

\* Two uploads for one Kennzeichen have both succeeded, one after the other.
C11_Witness ==
    /\ arrivals = "serial"
    /\ \E s, o \in Subs :
           /\ SameKey(s, o) /\ Uploaded(s) /\ Uploaded(o)
           /\ Calls(s, "folder_create") = 1 /\ Calls(o, "folder_create") = 0
           /\ Done(s) /\ Done(o)

\* The contact step of s has produced a contact (not null, not an error).
HasContact(s) == subs[s].customer \in {"created", "found_existing"}

\* C12: under serial arrivals, two submissions with the same Kennzeichen
\* leave at most one contact page for it, and when both have a contact one
\* reports created and the other found_existing with the same contact id.
C12_SerialSubmissionsShareOneContact ==
    \A s, o \in Subs :
        SameKey(s, o)
            => /\ Cardinality(ContactsWith(subs[s].kennz)) <= 1
               /\ (subs[s].customer = "created" /\ HasContact(o))
                      => /\ subs[o].customer = "found_existing"
                         /\ subs[o].customerId = subs[s].customerId

\* Both contact steps ran to the end without a failed call.
BothCreated(s, o) ==
    /\ SameKey(s, o)
    /\ subs[s].customer = "created" /\ subs[o].customer = "created"
    /\ subs[s].failed = {} /\ subs[o].failed = {}

\* C13: the contact lookup and the contact creation are two awaited calls,
\* so two submissions with the same Kennzeichen can both look up before
\* either creates (the witness: both lookups returned, none failed, both
\* report created); whenever that has happened two contact pages with that
\* Kennzeichen exist, one per submission, each submission holding its own.
C13_RacingLookupsCreateTwoContacts ==
    \A s, o \in Subs :
        BothCreated(s, o)
            => /\ \E c, d \in ContactsWith(subs[s].kennz) : c.id = s /\ d.id = o
               /\ Cardinality(ContactsWith(subs[s].kennz)) >= 2
               /\ subs[s].customerId = s /\ subs[o].customerId = o
               /\ Calls(s, "contact_lookup") = 1 /\ Calls(o, "contact_lookup") = 1

\* Two answered submissions for one Kennzeichen, both reporting created
\* after a lookup that returned no page, and two contact pages.
C13_Witness ==
    \E s, o \in Subs :
        /\ BothCreated(s, o)
        /\ Cardinality(ContactsWith(subs[s].kennz)) = 2
        /\ Answered(s, 200) /\ Answered(o, 200)

\* C14 as stated: whatever the arrivals, no two folders under the root have
\* the same name.
C14_NeverDuplicateFolder ==
    \A f, g \in folders : f.name = g.name => f = g

\* C14: under serial arrivals no two folders under the root have the same
\* name, in every reachable state; only uploads that overlap can each miss
\* the other's folder in the lookup and create a second one.
C14_SerialNeverDuplicateFolder ==
    arrivals = "serial" => C14_NeverDuplicateFolder

\* A later upload has found the folder of an earlier one and is uploading
\* into it.
C14_Witness ==
    /\ arrivals = "serial"
    /\ \E s, o \in Subs :
           /\ SameKey(s, o)
           /\ Calls(s, "folder_create") = 1 /\ Done(s)
           /\ subs[o].pc = "drive_upload" /\ subs[o].customerFolderId = s

-----------------------------------------------------------------------------
(* Properties of normalizeFormData and validateFormData                    *)

\* normalizeFormData has been called on probe.data: probe.normalized is the
\* record the last call returned, at clock value probe.t.
Called == probe.stage \in {"normalized", "validated", "results", "repeated"}
KeyOf(i) == probe.data[i][1]
ValueOf(i) == probe.data[i][2]
Entries == 1 .. Len(probe.data)

\* The name the specification gives a key: dots become underscores, the alias
\* gutachtenNr becomes gutachten_nr, any other key is kept.
Snake(key) == [i \in 1 .. Len(key) |-> IF key[i] = "." THEN "_" ELSE key[i]]
Canonical(key) ==
    IF \E i \in 1 .. Len(key) : key[i] = "."
    THEN Snake(key)
    ELSE IF key = <<"gutachtenNr">> THEN <<"gutachten", "_", "nr">> ELSE key

\* The last entry whose key has the name k, and whether its value is one the
\* order number is synthesized over.
LastNamed(k) ==
    CHOOSE i \in Entries :
        Canonical(KeyOf(i)) = k /\ \A j \in Entries : Canonical(KeyOf(j)) = k => j <= i
Replaced(k) == k = <<"gutachten", "_", "nr">> /\ ValueOf(LastNamed(k)) = <<>>

\* The data without its i-th entry, and an object without its property k.
Without(data, i) == SubSeq(data, 1, i - 1) \o SubSeq(data, i + 1, Len(data))
Rest(obj, k) == [x \in DOMAIN obj \ {k} |-> obj[x]]

\* An input free of what C16 and C17 are about: no inherited property name
\* among the keys or their names, and no empty value.
PlainInput ==
    \A i \in Entries :
        /\ KeyOf(i) \notin InheritedKeys
        /\ Snake(KeyOf(i)) \notin InheritedKeys
        /\ ValueOf(i) # <<>>

\* C15 as stated (for plain inputs): every dotted key a.b is in the output as
\* a_b with its value, and every other input key is in the output under its
\* name with its own value, also when a key spelled a_b is among them.
C15_DottedKeyRewrittenOthersKept ==
    (Called /\ PlainInput)
        => \A i \in Entries :
               IncludesDot(KeyOf(i))
                   => /\ Get(probe.normalized, Snake(KeyOf(i))) = ValueOf(i)
                      /\ \A j \in Entries \ {i} :
                             Get(probe.normalized, Canonical(KeyOf(j))) = ValueOf(j)

\* C15: for every dotted key a.b of the input the output has the key a_b
\* (except that no key __proto__ is ever stored); it holds the value of the
\* last input key named a_b (a.b's own value unless a later key, such as one
\* spelled a_b, has the same name), or the synthesized order number when a_b
\* is gutachten_nr and that value is empty; and no other key of the output
\* is affected: the rest of the output is what the input without a.b is
\* normalized to.
C15_DottedKeyRewrittenLastWins ==
    Called
        => \A i \in Entries :
               IncludesDot(KeyOf(i))
                   => LET k == Snake(KeyOf(i))
                      IN  /\ IF k = <<"_", "_", "proto", "_", "_">>
                             THEN k \notin DOMAIN probe.normalized
                             ELSE /\ k \in DOMAIN probe.normalized
                                  /\ probe.normalized[k] =
                                         IF Replaced(k) THEN GeneratedNr(probe.t)
                                         ELSE ValueOf(LastNamed(k))
                          /\ Rest(probe.normalized, k) =
                                 Rest(normalizeFormData(Without(probe.data, i), probe.t), k)

\* A form with a.b followed by a_b has been normalized: a_b holds the value
\* of the second entry.
C15_Witness ==
    /\ Called
    /\ Len(probe.data) = 2
    /\ KeyOf(1) = <<"a", ".", "b">> /\ KeyOf(2) = <<"a", "_", "b">>
    /\ ValueOf(1) # <<>> /\ ValueOf(2) # <<>>
    /\ probe.normalized = [k \in {<<"a", "_", "b">>, GutachtenNrKey} |->
                              IF k = GutachtenNrKey THEN GeneratedNr(probe.t)
                              ELSE ValueOf(2)]

\* C16: every input key without a dot is in the output, under gutachten_nr
\* if it is the alias gutachtenNr and under its own name otherwise, with its
\* value (unless a later key has the same name or the value is an empty order
\* number, which C15 and C17 cover).
C16_UndottedKeysPassThrough ==
    Called
        => \A i \in Entries :
               ~IncludesDot(KeyOf(i))
                   => LET k == Canonical(KeyOf(i))
                      IN  /\ k \in DOMAIN probe.normalized
                          /\ (LastNamed(k) = i /\ ~Replaced(k))
                                 => probe.normalized[k] = ValueOf(i)

\* The input has an order number after key normalization: some key is named
\* gutachten_nr and the last such key has a non-empty value.
NrKey == <<"gutachten", "_", "nr">>
NrPresent ==
    /\ \E i \in Entries : Canonical(KeyOf(i)) = NrKey
    /\ ValueOf(LastNamed(NrKey)) # <<>>
IsBlank(str) == \A i \in 1 .. Len(str) : str[i] = " "

\* C17: when the input has no order number after key normalization the
\* record normalizeFormData returns has a synthesized one (DS-, the year, -,
\* the last six digits of the clock), which is not blank; and the results
\* object of a submission that passed validation carries the order number of
\* the normalized record, which is not blank.
C17_OrderNumberSynthesized ==
    /\ (Called /\ ~NrPresent)
           => LET nr == Get(probe.normalized, NrKey)
              IN  /\ nr = GeneratedNr(probe.t)
                  /\ Len(nr) >= 4 /\ Head(nr) = "DS-"
                  /\ ~IsBlank(nr)
    /\ probe.stage = "results"
           => /\ probe.resultNr = Get(probe.normalized, NrKey)
              /\ probe.resultNr # Undefined
              /\ ~IsBlank(probe.resultNr)

\* A form whose order number is the empty string went through to the results
\* object with a synthesized number.
C17_Witness ==
    /\ probe.stage = "results"
    /\ \E i \in Entries : KeyOf(i) = NrKey /\ ValueOf(i) = <<>>
    /\ probe.resultNr = GeneratedNr(probe.t)

\* The form was normalized twice and both calls synthesized the order number.
SynthesizedTwice == probe.stage = "repeated" /\ ~NrPresent
SecondNr == Get(probe.normalized, NrKey)
Wrap == 10 ^ SliceLength

\* C18 as stated: two calls that synthesize at different clock values return
\* different order numbers.
C18_DifferentTimesDifferentNumbers ==
    (SynthesizedTwice /\ probe.first.t # probe.t) => probe.first.nr # SecondNr

\* C18: two calls that synthesize at different clock values less than
\* 1,000,000 ms apart return different order numbers; two calls at clock
\* values of at least six digits that agree in the last six digits and lie
\* in the same year return the same order number.
C18_DifferentWithinAWrap ==
    SynthesizedTwice
        => /\ (probe.first.t # probe.t /\ probe.t - probe.first.t < Wrap)
                  => probe.first.nr # SecondNr
           /\ ( /\ probe.first.t >= Wrap \div 10
                /\ probe.first.t % Wrap = probe.t % Wrap
                /\ GetFullYear(probe.first.t) = GetFullYear(probe.t) )
                  => probe.first.nr = SecondNr

\* Two synthesizing calls one millisecond apart, across a wrap and within it.
C18_Witness ==
    /\ SynthesizedTwice
    /\ probe.first.t >= Wrap
    /\ probe.t = probe.first.t + 1
    /\ probe.first.nr # SecondNr

\* The seven required fields in their order, and what the validator saw.
SevenFields ==
    << <<"gutachten", "_", "nr">>, <<"auftraggeber", "_", "name">>,
       <<"auftraggeber", "_", "adresse">>, <<"auftraggeber", "_", "kontakt">>,
       <<"auftraggeber", "_", "kennzeichen">>, <<"unfall", "_", "tag">>,
       <<"unfall", "_", "ort">> >>
Validated == probe.stage \in {"validated", "results"}
IsMissing(f) == f \notin DOMAIN probe.normalized \/ IsBlank(probe.normalized[f])
MissingFields == {i \in 1 .. 7 : IsMissing(SevenFields[i])}

\* C19: validateFormData fails exactly when one of the seven required fields
\* is absent or blank (empty after trimming), and the error names the first
\* such field in list order; otherwise it succeeds.
C19_FirstMissingFieldNamed ==
    Validated
        => IF MissingFields = {}
           THEN probe.verdict = <<"ok">>
           ELSE \E i \in MissingFields :
                    /\ \A j \in MissingFields : i <= j
                    /\ probe.verdict = SevenFields[i]

\* Two fields are missing, a blank and an absent one, and the error names the
\* earlier of the two.
C19_Witness ==
    /\ Validated
    /\ Cardinality(MissingFields) = 2
    /\ probe.verdict = SevenFields[2]
    /\ SevenFields[2] \in DOMAIN probe.normalized
    /\ SevenFields[7] \notin DOMAIN probe.normalized

\* The contact string as the validator saw it, and whether the text before
\* its first '/' looks like an email address.
Kontakt == probe.normalized[SevenFields[4]]
LooksLikeEmail ==
    LET first == Trim(SplitOn(Kontakt, "/")[1])
    IN  /\ \E i \in 1 .. Len(first) : first[i] = "@"
        /\ EmailRegexTest(first)

\* C20: a record whose seven required fields are present and not blank
\* passes validateFormData whatever its contact string is: with or without a
\* '/', with or without an email address before it.
C20_ContactFormatNeverRejects ==
    (Validated /\ MissingFields = {}) => probe.verdict = <<"ok">>

\* A complete record whose contact string has a '/' but no email address
\* has passed validation.
C20_Witness ==
    /\ Validated /\ MissingFields = {}
    /\ \E i \in 1 .. Len(Kontakt) : Kontakt[i] = "/"
    /\ ~LooksLikeEmail
    /\ probe.verdict = <<"ok">>

-----------------------------------------------------------------------------
(* Properties of the order entry, the skipped stages and the upload        *)

\* The contact step of s is over: the order step has been reached or passed.
PastContactStep(s) ==
    Calls(s, "notion_stage") = 1 /\ subs[s].pc \in {"notion_order", "done"}

\* C21: when the order database is configured, a submission whose record
\* keeping has passed the contact step has issued the order creation,
\* whatever the contact step and the upload gave; an order page that was
\* created carries the link exactly if the upload of that submission
\* returned its result (and then that link), and the contact relation
\* exactly if the contact step returned a contact id, found or created (and
\* then that id).
C21_OrderCreatedWithoutAnnotations ==
    \A s \in Subs :
        /\ (PastContactStep(s) /\ env.BUSINESS_RESOURCES_DATABASE_ID)
               => Calls(s, "order_create") = 1
        /\ subs[s].businessResource = "created" <=> OrdersOf(s) # {}
        /\ \A o \in OrdersOf(s) :
               /\ o.link # Null <=> Uploaded(s)
               /\ o.link # Null => o.link = subs[s].googleDriveFileLink
               /\ o.kontakt # Null <=> HasContact(s)
               /\ o.kontakt # Null => o.kontakt = subs[s].customerId

\* An order page without link and without contact relation was created for
\* a submission whose upload and whose contact creation both failed.
C21_Witness ==
    \E s \in Subs :
        /\ UploadFailed(s)
        /\ subs[s].customer = "error"
        /\ \E o \in OrdersOf(s) : o.link = Null /\ o.kontakt = Null

\* C22: without a Drive client a rendered submission has googleDrive =
\* {skipped} and has entered no upload and made no Drive call; without a
\* Notion client a submission that is past the upload stage has notion =
\* {skipped} and has entered no record keeping and made no Notion call; in
\* both cases the submission is answered 200 once it is answered.
C22_UnconfiguredStagesSkipped ==
    \A s \in Subs :
        /\ (~env.drive /\ subs[s].pdf.payload)
               => /\ subs[s].googleDrive = WithSkipped
                  /\ \A c \in DriveCalls \cup {"upload_stage"} : Calls(s, c) = 0
                  /\ \A f \in folders \cup files : f.id # s
                  /\ Done(s) => Answered(s, 200)
        /\ (~notion /\ subs[s].googleDrive # NoOutcome)
               => /\ subs[s].notion = WithSkipped
                  /\ \A c \in NotionCalls \cup {"notion_stage"} : Calls(s, c) = 0
                  /\ \A c \in contacts \cup orders : c.id # s
                  /\ Done(s) /\ Answered(s, 200)

\* A submission answered 200 with both stages skipped.
C22_Witness ==
    /\ ~env.drive /\ ~notion
    /\ \E s \in Subs :
           /\ subs[s].googleDrive = WithSkipped /\ subs[s].notion = WithSkipped
           /\ Answered(s, 200)

\* Call b of s was issued only after call a of s had been issued and had
\* returned.
After(s, a, b) == Calls(s, b) >= 1 => (Calls(s, a) >= 1 /\ a \notin subs[s].failed)
PublicFile(id) == \E f \in files : f.id = id /\ f.public

\* C23: an upload issues its calls in the order root get, folder lookup,
\* folder creation (if any), file upload, permission, each after the one
\* before has returned; it returns its result only after the permission call
\* has returned, so the link of every returned result and the link of every
\* order page is that of an uploaded file with public read access.
C23_LinkOnlyAfterGrant ==
    /\ \A s \in Subs :
           /\ After(s, "upload_stage", "root_get")
           /\ After(s, "root_get", "folder_lookup")
           /\ After(s, "folder_lookup", "folder_create")
           /\ After(s, "folder_lookup", "file_upload")
           /\ After(s, "folder_create", "file_upload")
                  \/ Calls(s, "folder_create") = 0
           /\ After(s, "file_upload", "permission")
           /\ Uploaded(s)
                  => /\ Calls(s, "permission") = 1
                     /\ "permission" \notin subs[s].failed
                     /\ subs[s].googleDriveFileLink # Null
           /\ subs[s].googleDriveFileLink # Null
                  => Uploaded(s) /\ PublicFile(subs[s].googleDriveFileLink)
    /\ \A o \in orders : o.link # Null => PublicFile(o.link)

\* An order page carries the link of a file that is public.
C23_Witness ==
    \E o \in orders : o.link # Null /\ PublicFile(o.link)

-----------------------------------------------------------------------------
(* Properties of the contact string and the signature                      *)

\* The contact string of the record, the text before its first '/' and the
\* whole text after it, trimmed.
Rendered == probe.stage \in {"rendered", "kontakte"}
ContactString == probe.normalized[SevenFields[4]]
FirstSlash ==
    IF \E i \in 1 .. Len(ContactString) : ContactString[i] = "/"
    THEN CHOOSE i \in 1 .. Len(ContactString) :
             /\ ContactString[i] = "/"
             /\ \A j \in 1 .. i - 1 : ContactString[j] # "/"
    ELSE Len(ContactString) + 1
BeforeFirstSlash == Trim(SubSeq(ContactString, 1, FirstSlash - 1))
AfterFirstSlash == Trim(SubSeq(ContactString, FirstSlash + 1, Len(ContactString)))

\* C24: the document and the contact properties both have as email the
\* trimmed text before the first '/' of the contact string and as phone the
\* trimmed text after the first '/', whole.
C24_ContactSplitOnFirstSlash ==
    probe.stage = "kontakte"
        => /\ probe.pdf.email = BeforeFirstSlash
           /\ probe.pdf.phone = AfterFirstSlash
           /\ probe.kontakte.email = BeforeFirstSlash
           /\ probe.kontakte.phone = AfterFirstSlash

\* The signature value of the record, when it has one that is drawn.
Unterschrift == Get(probe.normalized, <<"unterschrift">>)
HasSignature ==
    Unterschrift # Undefined /\ Unterschrift # <<>> /\ Unterschrift # <<"data:,">>

\* C25: whatever the signature value, the body of generatePDFFile ends the
\* document and does not reject; a record with a signature has the image
\* embedded or skipped, and it is embedded only if the value holds an image.
C25_SignatureFailureSkipped ==
    Rendered
        => /\ probe.pdf.ended /\ ~probe.pdf.rejected
           /\ HasSignature <=> probe.pdf.signature \in {"embedded", "skipped"}
           /\ probe.pdf.signature = "embedded"
                  => Unterschrift[Len(Unterschrift)] = "iVBORw0KGgo"

\* A signature whose payload is no image was skipped and the document ended.
C25_Witness ==
    /\ Rendered
    /\ HasSignature
    /\ probe.pdf.signature = "skipped"
    /\ probe.pdf.ended

-----------------------------------------------------------------------------
(* Properties of failed uploads and of the record keeping outcome          *)

FolderOf(s) == {f \in folders : f.id = s}
FileOf(s) == {f \in files : f.id = s}
Returned(s, c) == Calls(s, c) >= 1 /\ c \notin subs[s].failed

\* C26 as stated: a submission whose upload failed has left no folder and no
\* file in Drive.
C26_FailedUploadLeavesNothing ==
    \A s \in Subs : UploadFailed(s) => FolderOf(s) = {} /\ FileOf(s) = {}

\* C26: a submission whose upload failed has no link and has left no file
\* with public read access; it has left the folder it created exactly if its
\* folder creation returned, and a file without public access exactly if the
\* call that failed is the permission grant.
C26_FailedUploadLeavesNoPublicFile ==
    \A s \in Subs :
        UploadFailed(s)
            => /\ subs[s].googleDriveFileLink = Null
               /\ \A f \in FileOf(s) : ~f.public
               /\ FolderOf(s) # {} <=> Returned(s, "folder_create")
               /\ FileOf(s) # {} <=> "permission" \in subs[s].failed

\* The permission grant failed: the folder and the file are left behind.
C26_Witness ==
    \E s \in Subs :
        /\ UploadFailed(s)
        /\ FolderOf(s) # {}
        /\ \E f \in FileOf(s) : ~f.public

\* C27: a submission whose contact query failed has created no contact page
\* and, once past the contact step, reports the contact step as failed; so
\* under serial arrivals a failed query never adds a second contact page for
\* a Kennzeichen that already has one.
C27_FailedLookupCreatesNoContact ==
    \A s \in Subs :
        "contact_lookup" \in subs[s].failed
            => /\ \A c \in contacts : c.id # s
               /\ PastContactStep(s) => subs[s].customer = "error"
               /\ Cardinality(ContactsWith(subs[s].kennz)) <= 1

\* The record keeping stage returned its payload {customer, businessResource}.
NotionCompleted(s) == subs[s].notion.payload

\* C28 as stated: a submission whose record keeping stage returned its
\* payload has an order page.
C28_CompletedStageCreatedOrder ==
    \A s \in Subs : NotionCompleted(s) => OrdersOf(s) # {}

\* C28: a submission whose record keeping stage returned its payload has an
\* order page exactly if the payload's businessResource reports created;
\* businessResource is null exactly if the order database is not configured,
\* and an error entry exactly if the order creation failed.
C28_CompletedStageReportsOrder ==
    \A s \in Subs :
        NotionCompleted(s)
            => /\ OrdersOf(s) # {} <=> subs[s].businessResource = "created"
               /\ subs[s].businessResource = "null" <=> ~env.BUSINESS_RESOURCES_DATABASE_ID
               /\ subs[s].businessResource = "error" <=> "order_create" \in subs[s].failed

\* The stage returned its payload after the order creation failed.
C28_Witness ==
    \E s \in Subs :
        /\ NotionCompleted(s)
        /\ subs[s].businessResource = "error"
        /\ OrdersOf(s) = {}

\* C29: validateFormData never names the order number as the missing field
\* of a record normalizeFormData returned.
C29_OrderNumberNeverMissing ==
    Validated => probe.verdict # NrKey

-----------------------------------------------------------------------------
(* Properties of the browser form                                          *)

Stored == dsGutachtenForm.signatureData
Shows(canvas, data) == data.pixels \subseteq canvas

\* C30: a stored signature is one the canvas still shows (every stroke it
\* encodes is on the canvas), and the signature of a body that was sent was
\* on the canvas when it was collected.
C30_StoredSignatureIsShown ==
    /\ Stored.mime # "" => Shows(dsGutachtenForm.canvas, Stored)
    /\ dsGutachtenForm.body.sent
           => Shows(dsGutachtenForm.body.shown, dsGutachtenForm.body.signature)
====
